---- MODULE Spec2Model ----
(***************************************************************************)
(* Model of src/capturer/engine/mac/pixelformat.rs: the presentation       *)
(* timestamp conversion and the four frame assemblers create_yuv_frame,    *)
(* create_bgr_frame, create_bgra_frame and create_rgb_frame.               *)
(*                                                                         *)
(* A sample is delivered, one assembler runs over it statement by          *)
(* statement (ip is its position in the assembler's statement list) and    *)
(* returns Some(frame) or None.  Pixel buffer memory is a sequence of      *)
(* bytes; offsets are 0-based as in the source, sequences are 1-based.     *)
(***************************************************************************)
EXTENDS Integers, Sequences, FiniteSets

VARIABLES sample, kind, ip, lockCount, lockCalls, unlockCalls, locals,
          result, trace, reads, prev, calls

vars == <<sample, kind, ip, lockCount, lockCalls, unlockCalls, locals,
          result, trace, reads, prev, calls>>

(* ---------------------------- bounds ----------------------------------- *)
MaxWidth == 2
MaxHeight == 2
MaxPad == 4
MaxPlanePad == 1
MaxCalls == 2

(* ------------------------- byte sequences ------------------------------ *)
Byte(seed, i) == (seed + 9 * i) % 256

Ramp(seed, len) == [i \in 1..len |-> Byte(seed, i)]

Seeds == {7, 200}

\* slice::from_raw_parts(base + start, len).to_vec()
from_raw_parts(mem, start, len) == [i \in 1..len |-> mem[start + i]]

Offsets(start, len) == {start + i : i \in 0..(len - 1)}

(* --------------------------- timestamps -------------------------------- *)
\* CMTimeGetSeconds(pts) * 1_000_000_000., as a signed decimal with one
\* fractional digit: (neg ? -1 : 1) * (ns + tenths / 10).
Seconds(neg, ns, tenths) == [neg |-> neg, ns |-> ns, tenths |-> tenths]

PtsChoices ==
    { Seconds(FALSE, 0, 0), Seconds(TRUE, 0, 5), Seconds(FALSE, 1234567891, 0),
      Seconds(FALSE, 2, 7), Seconds(TRUE, 3, 2) }

\* f64::trunc: drop the fractional part, keep the sign
trunc(x) == [neg |-> x.neg, ns |-> x.ns]

round(x) == [neg |-> x.neg, ns |-> IF x.tenths >= 5 THEN x.ns + 1 ELSE x.ns]

\* `as u64` on an f64: saturating, negative values become 0
as_u64(t) == IF t.neg THEN 0 ELSE t.ns

get_pts_in_nanoseconds_round(s) == as_u64(round(s.pts))

get_pts_in_nanoseconds(s) == as_u64(trunc(s.pts))

(* ------------------------ completeness metadata ------------------------ *)
SCFrameStatusComplete == 0

NullAttachments == [null |-> TRUE, items |-> <<>>]

Attachments(items) == [null |-> FALSE, items |-> items]

NoStatus == [hasStatus |-> FALSE, readable |-> FALSE, value |-> 0]

Status(readable, v) == [hasStatus |-> TRUE, readable |-> readable, value |-> v]

AttachmentChoices ==
    { NullAttachments, Attachments(<<>>), Attachments(<<NoStatus>>),
      Attachments(<<Status(FALSE, 1)>>), Attachments(<<Status(TRUE, 0)>>),
      Attachments(<<Status(TRUE, 1)>>) }

\* CFNumberGetValue(ref, kCFNumberSInt64Type, &mut frame_status) with
\* frame_status initialised to 0: result 0 leaves the out value untouched.
CFNumberGetValue(d) ==
    IF d.readable THEN [result |-> 1, out |-> d.value]
                  ELSE [result |-> 0, out |-> 0]

frame_status_complete_unchecked(att) ==
    /\ ~(att.null \/ Len(att.items) = 0)
    /\ att.items[1].hasStatus
    /\ CFNumberGetValue(att.items[1]).out = SCFrameStatusComplete

frame_status_complete(att) ==
    /\ ~(att.null \/ Len(att.items) = 0)
    /\ att.items[1].hasStatus
    /\ CFNumberGetValue(att.items[1]).result # 0
    /\ CFNumberGetValue(att.items[1]).out = SCFrameStatusComplete

(* ----------------------------- buffers --------------------------------- *)
Plane(stride, mem) == [stride |-> stride, mem |-> mem]

NoPlane == Plane(0, <<>>)

PackedBuffer(w, h, bpr, seed) ==
    [format |-> "packed", width |-> w, height |-> h, bytesPerRow |-> bpr,
     mem |-> Ramp(seed, bpr * h), planes |-> <<NoPlane, NoPlane>>]

BiplanarBuffer(w, h, ls, cs, seed) ==
    [format |-> "biplanar", width |-> w, height |-> h, bytesPerRow |-> 0,
     mem |-> <<>>,
     planes |-> << Plane(ls, Ramp(seed, ls * h)),
                   Plane(cs, Ramp(seed + 50, cs * ((h + 1) \div 2))) >>]

PackedBuffers ==
    { PackedBuffer(w, h, 4 * w + p, s) :
        w \in 0..MaxWidth, h \in 0..MaxHeight, p \in 0..MaxPad, s \in Seeds }

BiplanarBuffers ==
    { BiplanarBuffer(w, h, w + lp, w + cp, s) :
        w \in 0..MaxWidth, h \in 0..MaxHeight,
        lp \in 0..MaxPlanePad, cp \in 0..MaxPlanePad, s \in Seeds }

Sample(att, pts, buf) == [attachments |-> att, pts |-> pts, buffer |-> buf]

pixel_buffer_bounds(buf) == <<buf.width, buf.height>>

KindsFor(buf) == IF buf.format = "biplanar" THEN {"yuv"} ELSE {"bgr", "bgra", "rgb"}

(* --------------------------- converters -------------------------------- *)
get_cropped_data(data, cur_width, height, width) ==
    [k \in 1..(height * width * 4) |->
        data[((k - 1) \div (width * 4)) * (cur_width * 4) + ((k - 1) % (width * 4)) + 1]]

remove_alpha_channel(d) ==
    [k \in 1..((Len(d) \div 4) * 3) |-> d[4 * ((k - 1) \div 3) + ((k - 1) % 3) + 1]]

convert_bgra_to_rgb(d) ==
    [k \in 1..((Len(d) \div 4) * 3) |-> d[4 * ((k - 1) \div 3) + (2 - ((k - 1) % 3)) + 1]]

(* ----------------------- assembler statements -------------------------- *)
yuv_steps_unlock_first ==
    <<"gate", "pts", "lock", "bounds", "unlock", "plane0", "plane1", "construct">>

yuv_steps ==
    <<"gate", "pts", "lock", "bounds", "plane0", "plane1", "unlock", "construct">>

bgr_steps ==
    <<"pts", "lock", "bounds", "geometry", "copy", "crop", "unlock", "construct">>

bgra_steps_gated ==
    <<"gate", "pts", "lock", "bounds", "geometry", "copy_rows", "unlock", "construct">>

bgra_steps ==
    <<"pts", "lock", "bounds", "geometry", "copy_rows", "unlock", "construct">>

rgb_steps ==
    <<"pts", "lock", "bounds", "geometry", "copy", "crop", "unlock", "construct">>

StepsOf(k) ==
    CASE k = "yuv" -> yuv_steps
      [] k = "bgr" -> bgr_steps
      [] k = "bgra" -> bgra_steps
      [] k = "rgb" -> rgb_steps
      [] OTHER -> <<>>

At(label) == ip > 0 /\ StepsOf(kind)[ip] = label

None == [some |-> FALSE]

Some(f) == [some |-> TRUE, frame |-> f]

NoLocals ==
    [display_time |-> 0, width |-> 0, height |-> 0, bytes_per_row |-> 0,
     data |-> <<>>, cropped_data |-> <<>>,
     luminance_bytes |-> <<>>, luminance_stride |-> 0,
     chrominance_bytes |-> <<>>, chrominance_stride |-> 0]

NoPrev == [valid |-> FALSE]

is_empty_bounds_both(w, h) == w = 0 /\ h = 0

is_empty_bounds(w, h) == w = 0 \/ h = 0

bgra_row_start_packed(i, bytes_per_row, width) == i * 4 * width

bgra_row_start(i, bytes_per_row, width) == i * bytes_per_row

chrominance_len_half_stride(height, chrominance_stride) == height * (chrominance_stride \div 2)

chrominance_len(height, chrominance_stride) == (height * chrominance_stride) \div 2

RECURSIVE copy_rows(_, _, _, _, _)
copy_rows(mem, i, height, bytes_per_row, width) ==
    IF i >= height THEN <<>>
    ELSE from_raw_parts(mem, bgra_row_start(i, bytes_per_row, width), 4 * width)
         \o copy_rows(mem, i + 1, height, bytes_per_row, width)

copy_rows_offsets(height, bytes_per_row, width) ==
    UNION { Offsets(bgra_row_start(i, bytes_per_row, width), 4 * width) : i \in 0..(height - 1) }

(* ------------------------------ state ---------------------------------- *)
Init ==
    /\ sample = Sample(NullAttachments, Seconds(FALSE, 0, 0), PackedBuffer(0, 0, 0, 7))
    /\ kind = "none"
    /\ ip = 0
    /\ lockCount = 0
    /\ lockCalls = 0
    /\ unlockCalls = 0
    /\ locals = NoLocals
    /\ result = None
    /\ trace = <<>>
    /\ reads = {}
    /\ prev = NoPrev
    /\ calls = 0

Begin(k) ==
    /\ kind' = k
    /\ ip' = 1
    /\ lockCalls' = 0
    /\ unlockCalls' = 0
    /\ locals' = NoLocals
    /\ result' = None
    /\ trace' = <<>>
    /\ reads' = {}

\* the capture subsystem delivers a sample over a fresh pixel buffer
Deliver ==
    /\ ip = 0
    /\ kind = "none"
    /\ \E buf \in PackedBuffers \cup BiplanarBuffers, att \in AttachmentChoices,
          pts \in PtsChoices :
          /\ sample' = Sample(att, pts, buf)
          /\ \E k \in KindsFor(buf) : Begin(k)
    /\ lockCount' = 0
    /\ prev' = NoPrev
    /\ calls' = 1

\* a further sample over the same pixel buffer and timestamp, with other
\* attachments, goes to the same assembler
Redeliver ==
    /\ ip = 0
    /\ kind # "none"
    /\ calls < MaxCalls
    /\ \E att \in AttachmentChoices \ {sample.attachments} :
          sample' = [sample EXCEPT !.attachments = att]
    /\ prev' = [valid |-> TRUE, kind |-> kind, sample |-> sample, result |-> result]
    /\ Begin(kind)
    /\ calls' = calls + 1
    /\ UNCHANGED lockCount

\* the caller takes the result; the sample and its buffer are dropped
Consume ==
    /\ ip = 0
    /\ kind # "none"
    /\ sample' = Sample(NullAttachments, Seconds(FALSE, 0, 0), PackedBuffer(0, 0, 0, 7))
    /\ kind' = "none"
    /\ lockCount' = 0
    /\ lockCalls' = 0
    /\ unlockCalls' = 0
    /\ locals' = NoLocals
    /\ result' = None
    /\ trace' = <<>>
    /\ reads' = {}
    /\ prev' = NoPrev
    /\ calls' = 0
    /\ UNCHANGED ip

Return(r) ==
    /\ result' = r
    /\ ip' = 0

Gate ==
    /\ At("gate")
    /\ IF frame_status_complete(sample.attachments)
         THEN ip' = ip + 1 /\ UNCHANGED result
         ELSE Return(None)
    /\ UNCHANGED <<sample, kind, lockCount, lockCalls, unlockCalls, locals,
                   trace, reads, prev, calls>>

Pts ==
    /\ At("pts")
    /\ locals' = [locals EXCEPT !.display_time = get_pts_in_nanoseconds(sample)]
    /\ ip' = ip + 1
    /\ UNCHANGED <<sample, kind, lockCount, lockCalls, unlockCalls, result,
                   trace, reads, prev, calls>>

\* CVPixelBufferLockBaseAddress(pixel_buffer, 0)
Lock ==
    /\ At("lock")
    /\ lockCount' = lockCount + 1
    /\ lockCalls' = lockCalls + 1
    /\ trace' = Append(trace, "lock")
    /\ ip' = ip + 1
    /\ UNCHANGED <<sample, kind, unlockCalls, locals, result, reads, prev, calls>>

Bounds ==
    /\ At("bounds")
    /\ LET b == pixel_buffer_bounds(sample.buffer) IN
         /\ locals' = [locals EXCEPT !.width = b[1], !.height = b[2]]
         /\ IF is_empty_bounds(b[1], b[2])
              THEN Return(None)
              ELSE ip' = ip + 1 /\ UNCHANGED result
    /\ trace' = Append(trace, "bounds")
    /\ UNCHANGED <<sample, kind, lockCount, lockCalls, unlockCalls, reads,
                   prev, calls>>

\* CVPixelBufferGetBaseAddress, CVPixelBufferGetBytesPerRow
Geometry ==
    /\ At("geometry")
    /\ locals' = [locals EXCEPT !.bytes_per_row = sample.buffer.bytesPerRow]
    /\ trace' = trace \o <<"base", "stride">>
    /\ ip' = ip + 1
    /\ UNCHANGED <<sample, kind, lockCount, lockCalls, unlockCalls, result,
                   reads, prev, calls>>

Copy ==
    /\ At("copy")
    /\ locals' = [locals EXCEPT !.data =
           from_raw_parts(sample.buffer.mem, 0, locals.bytes_per_row * locals.height)]
    /\ reads' = reads \cup Offsets(0, locals.bytes_per_row * locals.height)
    /\ trace' = Append(trace, "copy")
    /\ ip' = ip + 1
    /\ UNCHANGED <<sample, kind, lockCount, lockCalls, unlockCalls, result,
                   prev, calls>>

CopyRows ==
    /\ At("copy_rows")
    /\ locals' = [locals EXCEPT !.data =
           copy_rows(sample.buffer.mem, 0, locals.height, locals.bytes_per_row, locals.width)]
    /\ reads' = reads \cup copy_rows_offsets(locals.height, locals.bytes_per_row, locals.width)
    /\ trace' = Append(trace, "copy")
    /\ ip' = ip + 1
    /\ UNCHANGED <<sample, kind, lockCount, lockCalls, unlockCalls, result,
                   prev, calls>>

Crop ==
    /\ At("crop")
    /\ locals' = [locals EXCEPT !.cropped_data =
           get_cropped_data(locals.data, locals.bytes_per_row \div 4,
                            locals.height, locals.width)]
    /\ ip' = ip + 1
    /\ UNCHANGED <<sample, kind, lockCount, lockCalls, unlockCalls, result,
                   trace, reads, prev, calls>>

Plane0 ==
    /\ At("plane0")
    /\ LET p == sample.buffer.planes[1] IN
         locals' = [locals EXCEPT
             !.luminance_stride = p.stride,
             !.luminance_bytes = from_raw_parts(p.mem, 0, locals.height * p.stride)]
    /\ trace' = trace \o <<"base", "stride", "copy">>
    /\ ip' = ip + 1
    /\ UNCHANGED <<sample, kind, lockCount, lockCalls, unlockCalls, result,
                   reads, prev, calls>>

Plane1 ==
    /\ At("plane1")
    /\ LET p == sample.buffer.planes[2] IN
         locals' = [locals EXCEPT
             !.chrominance_stride = p.stride,
             !.chrominance_bytes =
                 from_raw_parts(p.mem, 0, chrominance_len(locals.height, p.stride))]
    /\ trace' = trace \o <<"base", "stride", "copy">>
    /\ ip' = ip + 1
    /\ UNCHANGED <<sample, kind, lockCount, lockCalls, unlockCalls, result,
                   reads, prev, calls>>

\* CVPixelBufferUnlockBaseAddress(pixel_buffer, 0)
Unlock ==
    /\ At("unlock")
    /\ lockCount' = lockCount - 1
    /\ unlockCalls' = unlockCalls + 1
    /\ trace' = Append(trace, "unlock")
    /\ ip' = ip + 1
    /\ UNCHANGED <<sample, kind, lockCalls, locals, result, reads, prev, calls>>

YUVFrame ==
    [display_time |-> locals.display_time,
     width |-> locals.width,
     height |-> locals.height,
     luminance_bytes |-> locals.luminance_bytes,
     luminance_stride |-> locals.luminance_stride,
     chrominance_bytes |-> locals.chrominance_bytes,
     chrominance_stride |-> locals.chrominance_stride]

PackedFrame(data) ==
    [display_time |-> locals.display_time,
     width |-> locals.width,
     height |-> locals.height,
     data |-> data]

Construct ==
    /\ At("construct")
    /\ Return(Some(CASE kind = "yuv" -> YUVFrame
                     [] kind = "bgr" -> PackedFrame(remove_alpha_channel(locals.cropped_data))
                     [] kind = "bgra" -> PackedFrame(locals.data)
                     [] kind = "rgb" -> PackedFrame(convert_bgra_to_rgb(locals.cropped_data))))
    /\ trace' = Append(trace, "transform")
    /\ UNCHANGED <<sample, kind, lockCount, lockCalls, unlockCalls, locals,
                   reads, prev, calls>>

Next ==
    \/ Deliver
    \/ Redeliver
    \/ Consume
    \/ Gate
    \/ Pts
    \/ Lock
    \/ Bounds
    \/ Geometry
    \/ Copy
    \/ CopyRows
    \/ Crop
    \/ Plane0
    \/ Plane1
    \/ Unlock
    \/ Construct

Spec == Init /\ [][Next]_vars

Returned == ip = 0 /\ kind # "none"


(* ----------------------------- properties ------------------------------ *)
PackedKinds == {"bgr", "bgra", "rgb"}

Buf == sample.buffer

NonEmpty == Buf.width > 0 /\ Buf.height > 0

\* the byte of the packed buffer at a 0-based offset
Mem(offset) == Buf.mem[offset + 1]

\* the byte of a returned packed frame at a 0-based index
Out(index) == result.frame.data[index + 1]

\* C1: whenever no assembler call is in progress the buffer's lock count is
\* zero, and the call that just returned released the lock as often as it
\* acquired it (also on the zero-dimension early exit).
C1_LockReleasedOnEveryExit ==
    Returned => (lockCount = 0 /\ unlockCalls = lockCalls)

\* C2: a buffer whose bounds report width = 0 or height = 0 yields None from
\* every assembler, and every returned frame has width > 0, height > 0 and
\* carries exactly the bounds of the buffer.
C2_ZeroBoundsNoFrame ==
    Returned =>
        /\ (Buf.width = 0 \/ Buf.height = 0) => ~result.some
        /\ result.some =>
              /\ result.frame.width > 0
              /\ result.frame.height > 0
              /\ result.frame.width = Buf.width
              /\ result.frame.height = Buf.height

C2_Witness ==
    /\ Returned
    /\ lockCalls = 1
    /\ Buf.width > 0
    /\ Buf.height = 0
    /\ Buf.bytesPerRow > 0
    /\ ~result.some

\* the status of the sample is read successfully and is the complete sentinel
StatusComplete(att) ==
    /\ ~att.null
    /\ att.items # <<>>
    /\ att.items[1].hasStatus
    /\ att.items[1].readable
    /\ att.items[1].value = SCFrameStatusComplete

\* C3: create_yuv_frame locks the buffer and reads geometry only when the
\* frame status is read successfully and is complete; in every other case it
\* returns None with no lock call and no access to the buffer.
C3_GateBeforeLock ==
    kind = "yuv" =>
        /\ ~StatusComplete(sample.attachments) =>
              /\ lockCalls = 0
              /\ trace = <<>>
              /\ Returned => ~result.some
        /\ (Returned /\ StatusComplete(sample.attachments)) =>
              /\ lockCalls = 1
              /\ trace # <<>>

C3_Witness ==
    /\ Returned
    /\ kind = "yuv"
    /\ sample.attachments = Attachments(<<Status(FALSE, 1)>>)
    /\ NonEmpty
    /\ ~result.some
    /\ lockCalls = 0

\* C4: for width > 0, height > 0 and any stride >= width*4, create_bgr_frame
\* returns height*width*3 bytes, pixel (y, x) being the source bytes at
\* y*stride + 4*x + 0, +1, +2.
C4_BgrPixels ==
    (Returned /\ kind = "bgr" /\ NonEmpty) =>
        /\ result.some
        /\ Len(result.frame.data) = Buf.height * Buf.width * 3
        /\ \A y \in 0..(Buf.height - 1), x \in 0..(Buf.width - 1), c \in 0..2 :
              Out((y * Buf.width + x) * 3 + c) = Mem(y * Buf.bytesPerRow + 4 * x + c)

\* C5: for width > 0, height > 0 and any stride >= width*4, create_rgb_frame
\* returns height*width*3 bytes, pixel (y, x) being the source bytes at
\* y*stride + 4*x + 2, +1, +0.
C5_RgbPixels ==
    (Returned /\ kind = "rgb" /\ NonEmpty) =>
        /\ result.some
        /\ Len(result.frame.data) = Buf.height * Buf.width * 3
        /\ \A y \in 0..(Buf.height - 1), x \in 0..(Buf.width - 1), c \in 0..2 :
              Out((y * Buf.width + x) * 3 + c) = Mem(y * Buf.bytesPerRow + 4 * x + (2 - c))

\* C6: for width > 0, height > 0 and stride >= width*4, create_bgra_frame
\* returns height*width*4 bytes, row i being the first width*4 bytes of source
\* row i, and it reads no byte at an offset >= width*4 within a source row.
C6_BgraRows ==
    (Returned /\ kind = "bgra" /\ NonEmpty) =>
        /\ result.some
        /\ Len(result.frame.data) = Buf.height * Buf.width * 4
        /\ \A i \in 0..(Buf.height - 1), b \in 0..(4 * Buf.width - 1) :
              Out(i * 4 * Buf.width + b) = Mem(i * Buf.bytesPerRow + b)
        /\ \A o \in reads :
              /\ o \div Buf.bytesPerRow < Buf.height
              /\ o % Buf.bytesPerRow < 4 * Buf.width

C6_Witness ==
    /\ Returned
    /\ kind = "bgra"
    /\ result.some
    /\ Buf.height = 2
    /\ Buf.width = 2
    /\ Buf.bytesPerRow = 11
    /\ Cardinality(reads) = 16

\* C7: for a complete biplanar sample with width > 0 and height > 0 the frame
\* holds the first height*luminance_stride bytes of plane 0 and the first
\* (height*chrominance_stride)/2 bytes of plane 1, and both strides as read.
C7_YuvPlanes ==
    (Returned /\ kind = "yuv" /\ NonEmpty /\ StatusComplete(sample.attachments)) =>
        /\ result.some
        /\ result.frame.luminance_stride = Buf.planes[1].stride
        /\ result.frame.chrominance_stride = Buf.planes[2].stride
        /\ Len(result.frame.luminance_bytes) = Buf.height * Buf.planes[1].stride
        /\ \A i \in 1..(Buf.height * Buf.planes[1].stride) :
              result.frame.luminance_bytes[i] = Buf.planes[1].mem[i]
        /\ Len(result.frame.chrominance_bytes) = (Buf.height * Buf.planes[2].stride) \div 2
        /\ \A i \in 1..((Buf.height * Buf.planes[2].stride) \div 2) :
              result.frame.chrominance_bytes[i] = Buf.planes[2].mem[i]

C7_Witness ==
    /\ Returned
    /\ kind = "yuv"
    /\ result.some
    /\ Buf.height = 2
    /\ Buf.planes[2].stride = 3
    /\ Len(result.frame.chrominance_bytes) = 3
    /\ Len(result.frame.luminance_bytes) = 2 * Buf.planes[1].stride

\* C8: the timestamp is the product truncated toward zero as a u64 (negative
\* values give 0, a fraction is dropped and never rounded up), it is computed
\* for every sample, and every returned frame carries it as display_time.
C8_PtsTruncated ==
    LET expected == IF sample.pts.neg THEN 0 ELSE sample.pts.ns IN
        /\ (Returned /\ lockCalls > 0) => locals.display_time = expected
        /\ (Returned /\ result.some) =>
              /\ result.frame.display_time = expected
              /\ sample.pts = Seconds(FALSE, 1234567891, 0) =>
                    result.frame.display_time = 1234567891
              /\ sample.pts = Seconds(FALSE, 0, 0) => result.frame.display_time = 0
              /\ sample.pts = Seconds(TRUE, 0, 5) => result.frame.display_time = 0

C8_Witness ==
    /\ Returned
    /\ result.some
    /\ sample.pts = Seconds(FALSE, 2, 7)
    /\ result.frame.display_time = 2

BufferAccess == {"bounds", "base", "stride", "copy"}

\* C9: within one invocation every read of bounds, base address or stride and
\* every copy out of the buffer comes after the single lock call and before
\* the unlock call; the channel transform runs after the unlock and is no
\* buffer access.
C9_AccessInsideLock ==
    /\ lockCalls <= 1
    /\ Cardinality({i \in 1..Len(trace) : trace[i] = "lock"}) <= 1
    /\ \A i \in 1..Len(trace) :
          /\ trace[i] \in BufferAccess =>
                /\ \E j \in 1..(i - 1) : trace[j] = "lock"
                /\ \A j \in 1..(i - 1) : trace[j] # "unlock"
          /\ trace[i] = "transform" =>
                /\ \E j \in 1..(i - 1) : trace[j] = "unlock"
                /\ \A j \in (i + 1)..Len(trace) : trace[j] \notin BufferAccess

C9_Witness ==
    /\ Returned
    /\ kind = "yuv"
    /\ result.some
    /\ trace = <<"lock", "bounds", "base", "stride", "copy",
                 "base", "stride", "copy", "unlock", "transform">>

\* C10: a packed assembler returns the same result for two samples that
\* differ only in their attachments, while create_yuv_frame returns a frame
\* only when the status is complete.
C10_PackedIgnoreStatus ==
    /\ (/\ Returned
        /\ prev.valid
        /\ kind \in PackedKinds
        /\ prev.kind = kind
        /\ prev.sample.buffer = sample.buffer
        /\ prev.sample.pts = sample.pts
        /\ prev.sample.attachments # sample.attachments) => result = prev.result
    /\ (Returned /\ kind = "yuv" /\ result.some) => StatusComplete(sample.attachments)

C10_Witness ==
    /\ Returned
    /\ prev.valid
    /\ kind = "bgra"
    /\ prev.kind = "bgra"
    /\ prev.sample.attachments = Attachments(<<Status(TRUE, 0)>>)
    /\ sample.attachments = Attachments(<<>>)
    /\ result.some
    /\ result = prev.result

====
